---- MODULE Spec2Model ----
(***************************************************************************)
(* The /github_tree command of the bot (src/src/cogs/github_cog.py,        *)
(* GitHubCog.github_tree; src/bot.py holds the same handler as a free      *)
(* function), github_request (src/src/utils/github_utils.py) with the     *)
(* bot's last_api_call and api_call_delay, and the bot's startup with its  *)
(* command sync (src/src/utils/core.py).  A string is a sequence of        *)
(* Unicode code points, so that len(), slicing, "+" and str.split are      *)
(* what they are in the handler.                                           *)
(***************************************************************************)
EXTENDS Integers, Sequences, FiniteSets, TLC

VARIABLES
    pc,          \* position of the handler
    repo,        \* the command's repo argument
    max_depth,   \* the command's max_depth argument
    owner,       \* parsed reference
    name,
    branch,
    subpath,
    all_paths,   \* paths of the upstream listing
    paths,       \* paths handed to format_tree
    tree_dict,   \* format_tree's nested dict
    tree_lines,  \* output of format_tree
    chunks,      \* the paginator's chunks
    part,        \* index into chunks of the embed being sent
    requests,    \* upstream requests issued so far
    sent,        \* responses delivered to the user, in order
    attempts,    \* followup sends attempted so far
    outcome,     \* the error or the kind of delivery the handler decided on
    raised,      \* the handler's except block has run
    swallowed,   \* the except block's own send failed and was passed over
    clock,           \* time.time(), in ticks
    last_api_call,   \* bot.last_api_call
    api_call_delay,  \* bot.api_call_delay, in ticks
    call,            \* the github_request call each caller is in
    log,             \* the github_request calls made so far, in order of entry
    overlapped,      \* some call was entered while another was under way
    returned,        \* what the upstream did in the call that returned last,
                     \* what the call returned, and whether that is a dict
    IS_RENDER,        \* bot.IS_RENDER
    target_guild_id,  \* bot.target_guild_id is set
    registered,       \* the command tree has commands when setup_hook runs
    commands_synced,  \* bot._commands_synced
    syncs,            \* calls of tree.sync(guild=guild) so far
    hook,             \* where setup_hook is
    ready             \* where each on_ready event's handler is

\* what github_request reads and writes of the clock and the bot
timing == <<clock, last_api_call>>
\* what belongs to the callers of github_request taken by themselves
callers == <<api_call_delay, call, log, overlapped, returned>>
\* what the bot's startup reads and writes
startup == <<IS_RENDER, target_guild_id, registered, commands_synced, syncs,
             hook, ready>>

vars == <<pc, repo, max_depth, owner, name, branch, subpath, all_paths,
          paths, tree_dict, tree_lines, chunks, part, requests, sent,
          attempts, outcome, raised, swallowed, timing, callers, startup>>

(***************************************************************************)
(* Strings                                                                 *)
(***************************************************************************)
NL      == <<10>>
Slash   == <<47>>
Dots    == <<46, 46, 46>>                   \* "..."
Box     == <<128230, 32>>                   \* the root line's emoji and space
TreeSeg == <<47, 116, 114, 101, 101, 47>>   \* "/tree/"
ConnLast   == <<9492, 9472, 9472, 32>>      \* last-sibling connector
ConnMid    == <<9500, 9472, 9472, 32>>      \* continuing-sibling connector
IndentLast == <<32, 32, 32, 32>>
IndentMid  == <<9474, 32, 32, 32>>

\* "\n\n... (Output truncated by embed limit)", 37 code points
trunc_msg ==
    <<10, 10, 8230, 32, 40, 79, 117, 116, 112, 117, 116, 32, 116, 114, 117,
      110, 99, 97, 116, 101, 100, 32, 98, 121, 32, 101, 109, 98, 101, 100,
      32, 108, 105, 109, 105, 116, 41>>

Max(a, b) == IF a >= b THEN a ELSE b
Min(a, b) == IF a <= b THEN a ELSE b

\* s[:n] for n >= 0
Take(s, n) == SubSeq(s, 1, Min(n, Len(s)))
\* s[n:] for n >= 0
Drop(s, n) == SubSeq(s, n + 1, Len(s))

StartsWith(s, p) == Len(s) >= Len(p) /\ SubSeq(s, 1, Len(p)) = p

\* str.lower() on the ASCII letters
LowerChar(c) == IF c >= 65 /\ c <= 90 THEN c + 32 ELSE c
Lower(s) == [i \in 1..Len(s) |-> LowerChar(s[i])]

\* a < b for strings: code-point lexicographic order
StrLess(a, b) ==
    LET m    == Min(Len(a), Len(b))
        diff == {k \in 1..m : a[k] # b[k]}
    IN  IF diff = {}
        THEN Len(a) < Len(b)
        ELSE LET k == CHOOSE i \in diff : \A j \in diff : i <= j
             IN  a[k] < b[k]

\* s.split(c) for a separator c of one character
SplitAt(s, c) ==
    LET pos    == {i \in 1..Len(s) : s[i] = c}
        n      == Cardinality(pos)
        Kth(k) == CHOOSE i \in pos : Cardinality({j \in pos : j < i}) = k - 1
        first(k) == IF k = 1 THEN 1 ELSE Kth(k - 1) + 1
        last(k)  == IF k = n + 1 THEN Len(s) ELSE Kth(k) - 1
    IN  [k \in 1..(n + 1) |-> SubSeq(s, first(k), last(k))]

\* s.split("/")
Split(s) == SplitAt(s, 47)

\* sep.join(strs)
RECURSIVE Join(_, _)
Join(sep, strs) ==
    IF Len(strs) = 0 THEN <<>>
    ELSE IF Len(strs) = 1 THEN strs[1]
    ELSE strs[1] \o sep \o Join(sep, Tail(strs))

RECURSIVE Flat(_)
Flat(seqs) == IF Len(seqs) = 0 THEN <<>> ELSE Head(seqs) \o Flat(Tail(seqs))

(***************************************************************************)
(* format_tree: the nested dict.  A dict is its items in insertion order,  *)
(* as Python keeps them; a value is a dict or the "..." sentinel.          *)
(***************************************************************************)
EmptyDict == [isdict |-> TRUE,  items |-> <<>>]
Sentinel  == [isdict |-> FALSE, items |-> <<>>]

HasKey(d, k) == \E i \in DOMAIN d.items : d.items[i].key = k
Get(d, k) == d.items[CHOOSE i \in DOMAIN d.items : d.items[i].key = k].value
\* d[k] = v: an existing key keeps its place, a new one goes last
Put(d, k, v) ==
    IF HasKey(d, k)
    THEN [d EXCEPT !.items =
            [i \in DOMAIN d.items |->
                IF d.items[i].key = k THEN [key |-> k, value |-> v]
                ELSE d.items[i]]]
    ELSE [d EXCEPT !.items = Append(d.items, [key |-> k, value |-> v])]

\* the walk without "if part not in current": a directory met again is emptied
RECURSIVE WalkResetting(_, _, _, _)
WalkResetting(current, parts, i, depth) ==
    IF i > Len(parts) THEN current
    ELSE
        LET p == parts[i] IN
        IF i - 1 >= depth
        THEN IF current.isdict /\ ~HasKey(current, p)
             THEN Put(current, p, Sentinel)
             ELSE current
        ELSE
            LET c1    == Put(current, p, EmptyDict)
                child == Get(c1, p)
            IN  IF i = Len(parts) THEN c1
                ELSE Put(c1, p, WalkResetting(child, parts, i + 1, depth))

\* the walk with the cutoff test "i > max_depth"
RECURSIVE WalkDeeper(_, _, _, _)
WalkDeeper(current, parts, i, depth) ==
    IF i > Len(parts) THEN current
    ELSE
        LET p == parts[i] IN
        IF i - 1 > depth
        THEN IF current.isdict /\ ~HasKey(current, p)
             THEN Put(current, p, Sentinel)
             ELSE current
        ELSE
            LET c1    == IF ~HasKey(current, p) THEN Put(current, p, EmptyDict)
                         ELSE current
                child == Get(c1, p)
            IN  IF i = Len(parts) THEN c1
                ELSE IF child # Sentinel
                     THEN Put(c1, p, WalkDeeper(child, parts, i + 1, depth))
                     ELSE WalkDeeper(c1, parts, i + 1, depth)

\* the walk without the break after the cutoff test: the segments below the
\* cutoff are looked at in the dict the walk stopped in
RECURSIVE WalkNoBreak(_, _, _, _)
WalkNoBreak(current, parts, i, depth) ==
    IF i > Len(parts) THEN current
    ELSE
        LET p == parts[i] IN
        IF i - 1 >= depth
        THEN WalkNoBreak(IF current.isdict /\ ~HasKey(current, p)
                         THEN Put(current, p, Sentinel)
                         ELSE current,
                         parts, i + 1, depth)
        ELSE
            LET c1    == IF ~HasKey(current, p) THEN Put(current, p, EmptyDict)
                         ELSE current
                child == Get(c1, p)
            IN  IF i = Len(parts) THEN c1
                ELSE IF child # Sentinel
                     THEN Put(c1, p, WalkNoBreak(child, parts, i + 1, depth))
                     ELSE WalkNoBreak(c1, parts, i + 1, depth)

\* the body of "for i, part in enumerate(parts)" from index i on (1-based),
\* with `current` the dict the walk stands in; the result is that dict after
\* the rest of the walk
RECURSIVE Walk(_, _, _, _)
Walk(current, parts, i, depth) ==
    IF i > Len(parts) THEN current
    ELSE
        LET p == parts[i] IN
        IF i - 1 >= depth
        THEN IF current.isdict /\ ~HasKey(current, p)
             THEN Put(current, p, Sentinel)
             ELSE current
        ELSE
            LET c1    == IF ~HasKey(current, p) THEN Put(current, p, EmptyDict)
                         ELSE current
                child == Get(c1, p)
            IN  IF i = Len(parts) THEN c1
                ELSE IF child # Sentinel
                     THEN Put(c1, p, Walk(child, parts, i + 1, depth))
                     ELSE Walk(c1, parts, i + 1, depth)

\* "for p in paths_list": tree_dict after the walks of the paths lo..hi in
\* order; the first half of them is walked, and its dict evaluated, before
\* the second half is entered
RECURSIVE BuildTree(_, _, _, _, _)
BuildTree(d, paths_list, lo, hi, depth) ==
    IF lo > hi THEN d
    ELSE IF lo = hi THEN Walk(d, Split(paths_list[lo]), 1, depth)
    ELSE LET mid   == (lo + hi) \div 2
             first == BuildTree(d, paths_list, lo, mid, depth)
         IN  IF first.isdict
             THEN BuildTree(first, paths_list, mid + 1, hi, depth)
             ELSE first

\* sort_key: (not is_dir, key.lower())
IsDir(value) == value.isdict /\ value.items # <<>>
\* the sort key without .lower()
\* sort_key without the name: directories first, otherwise as inserted
KeyLessByKind(a, b) == IsDir(a.value) /\ ~IsDir(b.value)

KeyLessCased(a, b) ==
    \/ IsDir(a.value) /\ ~IsDir(b.value)
    \/ /\ IsDir(a.value) = IsDir(b.value)
       /\ StrLess(a.key, b.key)

KeyLess(a, b) ==
    \/ IsDir(a.value) /\ ~IsDir(b.value)
    \/ /\ IsDir(a.value) = IsDir(b.value)
       /\ StrLess(Lower(a.key), Lower(b.key))

\* sorted() is stable: an item goes after the sorted items that are not
\* greater than it
RECURSIVE Place(_, _)
Place(item, s) ==
    IF s = <<>> THEN <<item>>
    ELSE IF KeyLess(item, s[Len(s)])
         THEN Place(item, SubSeq(s, 1, Len(s) - 1)) \o <<s[Len(s)]>>
         ELSE s \o <<item>>

RECURSIVE SortedFrom(_, _)
SortedFrom(items, k) ==
    IF k = 0 THEN <<>> ELSE Place(items[k], SortedFrom(items, k - 1))

Sorted(items) == SortedFrom(items, Len(items))

\* build_lines(d, prefix): the lines it appends
RECURSIVE build_lines(_, _)
build_lines(d, prefix) ==
    LET sorted_items == Sorted(d.items)
        n == Len(sorted_items)
        LinesOf(i) ==
            LET key          == sorted_items[i].key
                value        == sorted_items[i].value
                is_directory == IsDir(value)
                is_truncated == value = Sentinel
                is_last      == i = n
                connector    == IF is_last THEN ConnLast ELSE ConnMid
                next_prefix  == prefix \o (IF is_last THEN IndentLast ELSE IndentMid)
                suffix       == IF is_directory \/ is_truncated THEN Slash ELSE <<>>
            IN  <<prefix \o connector \o key \o suffix>>
                \o (IF is_directory THEN build_lines(value, next_prefix) ELSE <<>>)
    IN  Flat([i \in 1..n |-> LinesOf(i)])

root_name(o, n, b, sp) ==
    IF sp # <<>>
    THEN Box \o o \o Slash \o n \o TreeSeg \o b \o Slash \o sp
    ELSE Box \o o \o Slash \o n \o TreeSeg \o b

tree_dict_of(paths_list, depth) ==
    BuildTree(EmptyDict, paths_list, 1, Len(paths_list), depth)

format_tree(paths_list, depth, o, n, b, sp) ==
    <<root_name(o, n, b, sp)>> \o build_lines(tree_dict_of(paths_list, depth), <<>>)

(***************************************************************************)
(* The paginator: constants, chunking loop and embed cap                   *)
(***************************************************************************)
MAX_PATH_LIMIT    == 5000
MAX_EMBEDS        == 4
MAX_FIELD_VALUE   == 1024 - 15
MAX_CONTENT_CHARS == Min(750, MAX_FIELD_VALUE)

\* the slice forgets the three characters of the "..."
EllipsizedLong(line) ==
    IF Len(line) > MAX_CONTENT_CHARS
    THEN Take(line, MAX_CONTENT_CHARS) \o Dots
    ELSE line

\* line = line[:MAX_CONTENT_CHARS - 3] + "..." when the line is too long
Ellipsized(line) ==
    IF Len(line) > MAX_CONTENT_CHARS
    THEN Take(line, MAX_CONTENT_CHARS - 3) \o Dots
    ELSE line

\* "for line in tree_lines" from line k on, and the final flush
RECURSIVE ChunkLoop(_, _, _, _, _)
ChunkLoop(lines, k, cs, current_chunk, current_len) ==
    IF k > Len(lines)
    THEN IF current_chunk # <<>> THEN Append(cs, Join(NL, current_chunk)) ELSE cs
    ELSE
        LET line  == Ellipsized(lines[k])
            flush == current_len + Len(line) + 1 > MAX_CONTENT_CHARS
            cs1   == IF flush THEN Append(cs, Join(NL, current_chunk)) ELSE cs
            cc1   == IF flush THEN <<>> ELSE current_chunk
            cl1   == IF flush THEN 0 ELSE current_len
        IN  ChunkLoop(lines, k + 1, cs1, Append(cc1, line), cl1 + Len(line) + 1)

\* the flush after the loop is forgotten
GreedyChunksNoFlush(lines) ==
    LET cs == ChunkLoop(lines, 1, <<>>, <<>>, 0)
    IN  SubSeq(cs, 1, Len(cs) - 1)

GreedyChunks(lines) == ChunkLoop(lines, 1, <<>>, <<>>, 0)

\* chunks[-1] once the list was cut to MAX_EMBEDS, for a budget of limit
\* characters
WithNoticeAt(last, limit) ==
    IF Len(last) + Len(trunc_msg) > limit
    THEN LET available == Max(0, limit - Len(trunc_msg) - 3)
         IN  Take(last, available) \o Dots \o trunc_msg
    ELSE last \o trunc_msg

WithNotice(last) == WithNoticeAt(last, MAX_CONTENT_CHARS)

\* the chunks past the cap are joined to the last retained one
CappedJoined(cs) ==
    IF Len(cs) > MAX_EMBEDS
    THEN [i \in 1..MAX_EMBEDS |->
            IF i = MAX_EMBEDS
            THEN Join(NL, SubSeq(cs, MAX_EMBEDS, Len(cs)))
            ELSE cs[i]]
    ELSE cs

\* the cap tests >= instead of >
CappedAtLimit(cs) ==
    IF Len(cs) >= MAX_EMBEDS
    THEN [i \in 1..MAX_EMBEDS |->
            IF i = MAX_EMBEDS THEN WithNotice(cs[i]) ELSE cs[i]]
    ELSE cs

\* "if len(chunks) > MAX_EMBEDS"
Capped(cs) ==
    IF Len(cs) > MAX_EMBEDS
    THEN [i \in 1..MAX_EMBEDS |->
            IF i = MAX_EMBEDS THEN WithNotice(cs[i]) ELSE cs[i]]
    ELSE cs

\* the test taken against the budget of a chunk
OverflowsContent(cs) == \E i \in DOMAIN cs : Len(cs[i]) + 10 > MAX_CONTENT_CHARS

\* "if any(len(c) + 10 > MAX_FIELD_VALUE for c in chunks)"
Overflows(cs) == \E i \in DOMAIN cs : Len(cs[i]) + 10 > MAX_FIELD_VALUE

\* the file is built from the lines as the chunking loop cut them
FullTextShown(lines) == Join(NL, [i \in 1..Len(lines) |-> Ellipsized(lines[i])])

\* the text of the file the full-tree fallbacks send
FullText(lines) == Join(NL, lines)

(***************************************************************************)
(* Parsing of the repo argument                                            *)
(***************************************************************************)
Http == <<104, 116, 116, 112>>   \* "http"
Tree == <<116, 114, 101, 101>>   \* "tree"

\* the least index i >= from with s[i] in set, or Len(s) + 1
FirstIn(s, set, from) ==
    LET hits == {i \in from..Len(s) : s[i] \in set}
    IN  IF hits = {} THEN Len(s) + 1
        ELSE CHOOSE i \in hits : \A j \in hits : i <= j

IsSchemeChar(c) ==
    \/ c >= 97 /\ c <= 122
    \/ c >= 65 /\ c <= 90
    \/ c >= 48 /\ c <= 57
    \/ c \in {43, 45, 46}

\* urlparse(s).path: the scheme, the "//netloc", the "#fragment" and the
\* "?query" taken off
UrlPath(s) ==
    LET colon     == FirstIn(s, {58}, 1)
        hasScheme == /\ colon <= Len(s)
                     /\ colon > 1
                     /\ ~(s[1] >= 48 /\ s[1] <= 57)
                     /\ \A i \in 1..(colon - 1) : IsSchemeChar(s[i])
        r1 == IF hasScheme THEN Drop(s, colon) ELSE s
        r2 == IF StartsWith(r1, <<47, 47>>)
              THEN Drop(r1, FirstIn(r1, {47, 63, 35}, 3) - 1)
              ELSE r1
        r3 == Take(r2, FirstIn(r2, {35}, 1) - 1)
    IN  Take(r3, FirstIn(r3, {63}, 1) - 1)

\* s.strip("/")
StripSlashes(s) ==
    LET keep == {i \in 1..Len(s) : s[i] # 47}
    IN  IF keep = {} THEN <<>>
        ELSE SubSeq(s, CHOOSE i \in keep : \A j \in keep : i <= j,
                       CHOOSE i \in keep : \A j \in keep : i >= j)

\* the subpath joined from the branch on
ParsedSubpathFromBranch(r) ==
    IF StartsWith(r, Http)
    THEN LET url_parts == Split(StripSlashes(UrlPath(r)))
         IN  IF Len(url_parts) >= 2
             THEN LET isTree == Len(url_parts) >= 4 /\ url_parts[3] = Tree
                  IN  [ok      |-> TRUE,
                       err     |-> "",
                       owner   |-> url_parts[1],
                       name    |-> url_parts[2],
                       hasBranch |-> isTree,
                       branch  |-> IF isTree THEN url_parts[4] ELSE <<>>,
                       subpath |-> IF isTree /\ Len(url_parts) > 4
                                   THEN Join(Slash, SubSeq(url_parts, 4, Len(url_parts)))
                                   ELSE <<>>]
             ELSE [ok |-> FALSE, err |-> "invalid_url", owner |-> <<>>,
                   name |-> <<>>, hasBranch |-> FALSE, branch |-> <<>>,
                   subpath |-> <<>>]
    ELSE IF \E i \in 1..Len(r) : r[i] = 47
    THEN [ok |-> TRUE, err |-> "", owner |-> Split(r)[1], name |-> Split(r)[2],
          hasBranch |-> FALSE, branch |-> <<>>, subpath |-> <<>>]
    ELSE [ok |-> FALSE, err |-> "invalid_format", owner |-> <<>>,
          name |-> <<>>, hasBranch |-> FALSE, branch |-> <<>>, subpath |-> <<>>]

\* an owner/repo argument read for a tree suffix as a URL's path is
ParsedTreeEverywhere(r) ==
    IF StartsWith(r, Http)
    THEN LET url_parts == Split(StripSlashes(UrlPath(r)))
         IN  IF Len(url_parts) >= 2
             THEN LET isTree == Len(url_parts) >= 4 /\ url_parts[3] = Tree
                  IN  [ok      |-> TRUE,
                       err     |-> "",
                       owner   |-> url_parts[1],
                       name    |-> url_parts[2],
                       hasBranch |-> isTree,
                       branch  |-> IF isTree THEN url_parts[4] ELSE <<>>,
                       subpath |-> IF isTree /\ Len(url_parts) > 4
                                   THEN Join(Slash, SubSeq(url_parts, 5, Len(url_parts)))
                                   ELSE <<>>]
             ELSE [ok |-> FALSE, err |-> "invalid_url", owner |-> <<>>,
                   name |-> <<>>, hasBranch |-> FALSE, branch |-> <<>>,
                   subpath |-> <<>>]
    ELSE IF \E i \in 1..Len(r) : r[i] = 47
    THEN LET parts  == Split(r)
             isTree == Len(parts) >= 4 /\ parts[3] = Tree
         IN  [ok |-> TRUE, err |-> "", owner |-> parts[1], name |-> parts[2],
              hasBranch |-> isTree,
              branch  |-> IF isTree THEN parts[4] ELSE <<>>,
              subpath |-> IF isTree /\ Len(parts) > 4
                          THEN Join(Slash, SubSeq(parts, 5, Len(parts)))
                          ELSE <<>>]
    ELSE [ok |-> FALSE, err |-> "invalid_format", owner |-> <<>>,
          name |-> <<>>, hasBranch |-> FALSE, branch |-> <<>>, subpath |-> <<>>]

\* a URL of one path segment taken for a reference
ParsedOneSegment(r) ==
    IF StartsWith(r, Http)
    THEN LET url_parts == Split(StripSlashes(UrlPath(r)))
         IN  IF Len(url_parts) >= 1
             THEN LET isTree == Len(url_parts) >= 4 /\ url_parts[3] = Tree
                  IN  [ok      |-> TRUE,
                       err     |-> "",
                       owner   |-> url_parts[1],
                       name    |-> IF Len(url_parts) >= 2 THEN url_parts[2] ELSE <<>>,
                       hasBranch |-> isTree,
                       branch  |-> IF isTree THEN url_parts[4] ELSE <<>>,
                       subpath |-> IF isTree /\ Len(url_parts) > 4
                                   THEN Join(Slash, SubSeq(url_parts, 5, Len(url_parts)))
                                   ELSE <<>>]
             ELSE [ok |-> FALSE, err |-> "invalid_url", owner |-> <<>>,
                   name |-> <<>>, hasBranch |-> FALSE, branch |-> <<>>,
                   subpath |-> <<>>]
    ELSE IF \E i \in 1..Len(r) : r[i] = 47
    THEN [ok |-> TRUE, err |-> "", owner |-> Split(r)[1], name |-> Split(r)[2],
          hasBranch |-> FALSE, branch |-> <<>>, subpath |-> <<>>]
    ELSE [ok |-> FALSE, err |-> "invalid_format", owner |-> <<>>,
          name |-> <<>>, hasBranch |-> FALSE, branch |-> <<>>, subpath |-> <<>>]

\* the parse of lines 482-502: the reference, or the error it reports
Parsed(r) ==
    IF StartsWith(r, Http)
    THEN LET url_parts == Split(StripSlashes(UrlPath(r)))
         IN  IF Len(url_parts) >= 2
             THEN LET isTree == Len(url_parts) >= 4 /\ url_parts[3] = Tree
                  IN  [ok      |-> TRUE,
                       err     |-> "",
                       owner   |-> url_parts[1],
                       name    |-> url_parts[2],
                       hasBranch |-> isTree,
                       branch  |-> IF isTree THEN url_parts[4] ELSE <<>>,
                       subpath |-> IF isTree /\ Len(url_parts) > 4
                                   THEN Join(Slash, SubSeq(url_parts, 5, Len(url_parts)))
                                   ELSE <<>>]
             ELSE [ok |-> FALSE, err |-> "invalid_url", owner |-> <<>>,
                   name |-> <<>>, hasBranch |-> FALSE, branch |-> <<>>,
                   subpath |-> <<>>]
    ELSE IF \E i \in 1..Len(r) : r[i] = 47
    THEN [ok |-> TRUE, err |-> "", owner |-> Split(r)[1], name |-> Split(r)[2],
          hasBranch |-> FALSE, branch |-> <<>>, subpath |-> <<>>]
    ELSE [ok |-> FALSE, err |-> "invalid_format", owner |-> <<>>,
          name |-> <<>>, hasBranch |-> FALSE, branch |-> <<>>, subpath |-> <<>>]

(***************************************************************************)
(* github_request (src/src/utils/github_utils.py): what one call returns   *)
(* for what the upstream does                                              *)
(***************************************************************************)
Upstream ==
    {[session |-> TRUE,  raises |-> FALSE, status |-> 200, remaining |-> 1],
     [session |-> TRUE,  raises |-> FALSE, status |-> 404, remaining |-> 1],
     [session |-> TRUE,  raises |-> FALSE, status |-> 403, remaining |-> 0],
     [session |-> TRUE,  raises |-> FALSE, status |-> 403, remaining |-> 1],
     [session |-> TRUE,  raises |-> FALSE, status |-> 500, remaining |-> 1],
     [session |-> TRUE,  raises |-> TRUE,  status |-> 0,   remaining |-> 0],
     [session |-> TRUE,  raises |-> TRUE,  status |-> 200, remaining |-> 1],
     [session |-> FALSE, raises |-> FALSE, status |-> 0,   remaining |-> 0]}

\* the 403 branch without the test of the remaining quota
github_request_any_403(u) ==
    IF ~u.session THEN "none"
    ELSE IF u.raises THEN "none"
    ELSE IF u.status = 403 THEN "rate_limited"
    ELSE IF u.status = 200 THEN "json"
    ELSE IF u.status = 404 THEN "not_found"
    ELSE "none"

github_request(u) ==
    IF ~u.session THEN "none"
    ELSE IF u.raises THEN "none"
    ELSE IF u.status = 403 /\ u.remaining = 0 THEN "rate_limited"
    ELSE IF u.status = 200 THEN "json"
    ELSE IF u.status = 404 THEN "not_found"
    ELSE "none"

\* the bot without a session
NoSession == CHOOSE u \in Upstream : ~u.session

\* no call has returned
NoReturn == [u |-> NoSession, result |-> "pending", object |-> FALSE]

\* the requests issued so far, after a call for url under u
Issued(reqs, u, url) == IF u.session THEN Append(reqs, url) ELSE reqs

TicksPerSecond == 1   \* ticks of the clock in a second
MaxLate == 1          \* ticks by which a sleep can overrun

\* bot.api_call_delay: 2.0 if IS_RENDER else 1.0
Delays == {2 * TicksPerSecond, 1 * TicksPerSecond}

\* the clock when the bot is constructed: time.time() is far from 0
Boot == 2 * TicksPerSecond + 1

\* the sleep is the whole delay
SleepWhole(now, last, delay) ==
    IF now - last < delay THEN delay ELSE 0

\* the sleep of lines 62-66 for a call entered at now; 0 when there is none
Sleep(now, last, delay) ==
    IF now - last < delay THEN delay - (now - last) ELSE 0

\* the clock at line 68 for a call entered at now whose sleep, if it has
\* one, overruns by late
Stamp(now, last, delay, late) ==
    IF Sleep(now, last, delay) = 0 THEN now
    ELSE now + Sleep(now, last, delay) + late

(***************************************************************************)
(* Responses                                                               *)
(***************************************************************************)
Fence    == <<96, 96, 96, 102, 105, 120, 10>>   \* "```fix\n"
FenceEnd == <<10, 96, 96, 96>>                  \* "\n```"
PartBreak ==                                    \* "\n\n--- Part Break ---\n\n"
    <<10, 10, 45, 45, 45, 32, 80, 97, 114, 116, 32, 66, 114, 101, 97, 107,
      32, 45, 45, 45, 10, 10>>
RepoTreeFor == \* "Repository tree for "
    <<82, 101, 112, 111, 115, 105, 116, 111, 114, 121, 32, 116, 114, 101,
      101, 32, 102, 111, 114, 32>>
BranchOpen == <<32, 40, 98, 114, 97, 110, 99, 104, 58, 32>>   \* " (branch: "
PathOpen   == <<41, 10, 80, 97, 116, 104, 58, 32, 47>>        \* ")\nPath: /"

Text(m)  == [kind |-> "text", msg |-> m, content |-> <<>>, idx |-> 0, total |-> 0]
Embed(cs, i) ==
    [kind |-> "embed", msg |-> "part", content |-> Fence \o cs[i] \o FenceEnd,
     idx |-> i, total |-> Len(cs)]
File(m, text) ==
    [kind |-> "file", msg |-> m, content |-> text, idx |-> 0, total |-> 0]

\* the header of the file of the remaining parts
Header(o, n, b, sp) ==
    RepoTreeFor \o o \o Slash \o n \o BranchOpen \o b \o PathOpen \o sp
        \o <<10, 10>>

\* the remaining parts taken from the chunk after the failed one
RemainingTextFromNext(cs, i, o, n, b, sp) ==
    Header(o, n, b, sp) \o Join(PartBreak, SubSeq(cs, i + 2, Len(cs)))

\* header + "\n\n--- Part Break ---\n\n".join(chunks[i:])
RemainingText(cs, i, o, n, b, sp) ==
    Header(o, n, b, sp) \o Join(PartBreak, SubSeq(cs, i + 1, Len(cs)))

(***************************************************************************)
(* Inputs                                                                  *)
(***************************************************************************)
MaxDepth == 2   \* max_depth arguments are 0..MaxDepth
MaxParts == 4   \* long entries of a listing of the command
MaxPaths == 3   \* paths of a structural path list
MaxLong  == 4   \* paths of a path list of long names

\* a name of n + 1 characters: the letter c, then n times "x"
LongName(c, n) == <<c>> \o [i \in 1..n |-> 120]

Blob(p)   == [path |-> p, type |-> "blob"]
Dir(p)    == [path |-> p, type |-> "tree"]
Commit(p) == [path |-> p, type |-> "commit"]

RepoInputs ==
    {<<111, 47, 114>>,    \* "o/r"
     <<104, 116, 116, 112, 115, 58, 47, 47, 103, 105, 116, 104, 117, 98, 46, 99, 111, 109, 47, 111, 47, 114, 47, 116, 114, 101, 101, 47, 98, 47, 115>>,
              \* "https://github.com/o/r/tree/b/s"
     <<120>>,            \* "x"
     <<104, 116, 116, 112, 115, 58, 47, 47, 103, 105, 116, 104, 117, 98, 46, 99, 111, 109, 47, 111>>}
              \* "https://github.com/o"

DefaultBranch == <<109>>   \* "m"

\* the directory s with n entries of 743 characters below it
DeepListing(n) ==
    <<Dir(<<115>>)>> \o [i \in 1..n |-> Blob(<<115, 47>> \o LongName(96 + i, 742))]

\* more paths than MAX_PATH_LIMIT, two of them at and below the path s
BigListing ==
    <<Dir(<<115>>), Blob(<<115, 47, 97>>)>>
    \o [i \in 1..(MAX_PATH_LIMIT - 1) |-> Blob(<<102, 1000 + i>>)]

\* as many paths as MAX_PATH_LIMIT: the directories d, d/e, d/e/f, d/e/f/g
\* and the files of the last
FullListing ==
    <<Dir(<<100>>), Dir(<<100, 47, 101>>), Dir(<<100, 47, 101, 47, 102>>),
      Dir(<<100, 47, 101, 47, 102, 47, 103>>)>>
    \o [i \in 1..(MAX_PATH_LIMIT - 4) |->
            Blob(<<100, 47, 101, 47, 102, 47, 103, 47, 1000 + i>>)]

Listings ==
    {<<>>,
     FullListing,
     <<Commit(<<115>>)>>,
     <<Blob(<<115>>)>>,
     <<Blob(<<97>>), Commit(<<99>>), Dir(<<66>>), Blob(<<66, 47, 97>>)>>,
     BigListing}
    \cup {DeepListing(n) : n \in 0..MaxParts}

\* what the tree request's JSON body can be
TreeBodies ==
    {[kind |-> "tree", items |-> l] : l \in Listings}
    \cup {[kind |-> "notree", items |-> <<>>],
          [kind |-> "malformed", items |-> <<>>]}

(***************************************************************************)
(* The handler github_tree, one action per step between two awaits or two  *)
(* stages                                                                  *)
(***************************************************************************)
MaxReady == 2
Events == 1..MaxReady

\* the bot when commands are handled: setup_hook and one on_ready have run
Started ==
    /\ IS_RENDER = (api_call_delay = 2 * TicksPerSecond)
    /\ target_guild_id = TRUE
    /\ registered = TRUE
    /\ commands_synced = TRUE
    /\ syncs = (IF IS_RENDER THEN 1 ELSE 2)
    /\ hook = "done"
    /\ ready = [e \in Events |-> IF e = 1 THEN "done" ELSE "idle"]

Init ==
    /\ pc = "idle"
    /\ repo = <<>>
    /\ max_depth = 3
    /\ owner = <<>>
    /\ name = <<>>
    /\ branch = <<>>
    /\ subpath = <<>>
    /\ all_paths = <<>>
    /\ paths = <<>>
    /\ tree_dict = EmptyDict
    /\ tree_lines = <<>>
    /\ chunks = <<>>
    /\ part = 0
    /\ requests = <<>>
    /\ sent = <<>>
    /\ attempts = 0
    /\ outcome = "none"
    /\ raised = FALSE
    /\ swallowed = FALSE
    /\ clock = Boot
    /\ last_api_call \in {0, Boot - 1}
    /\ api_call_delay \in Delays
    /\ call = <<>>
    /\ log = <<>>
    /\ overlapped = FALSE
    /\ returned = NoReturn
    /\ Started

\* the command is invoked with its two arguments
Invoke ==
    /\ pc = "idle"
    /\ \E r \in RepoInputs, d \in 0..MaxDepth :
          /\ repo' = r
          /\ max_depth' = d
    /\ pc' = "defer"
    /\ UNCHANGED <<owner, name, branch, subpath, all_paths, paths, tree_dict,
                   tree_lines, chunks, part, requests, sent, attempts, outcome, raised,
                   swallowed, timing, callers, startup>>

\* await interaction.response.defer()
Defer ==
    /\ pc = "defer"
    /\ \/ pc' = "parse"
       \/ pc' = "except"
    /\ UNCHANGED <<repo, max_depth, owner, name, branch, subpath, all_paths,
                   paths, tree_dict, tree_lines, chunks, part, requests, sent,
                   attempts, outcome, raised,
                   swallowed, timing, callers, startup>>

\* lines 482-502
Parse ==
    /\ pc = "parse"
    /\ LET p == Parsed(repo) IN
          /\ owner' = p.owner
          /\ name' = p.name
          /\ branch' = p.branch
          /\ subpath' = p.subpath
          /\ pc' = IF p.ok THEN "repo_request" ELSE "reply"
          /\ outcome' = IF p.ok THEN outcome ELSE p.err
    /\ UNCHANGED <<repo, max_depth, all_paths, paths, tree_dict, tree_lines,
                   chunks, part, requests, sent, attempts, raised,
                   swallowed, timing, callers, startup>>

\* the rate-limit branch without its return
RepoRequestFallsThrough ==
    /\ pc = "repo_request"
    /\ \E u \in Upstream, isDict \in BOOLEAN, late \in 0..MaxLate :
          LET repo_data == github_request(u)
              stamp     == Stamp(clock, last_api_call, api_call_delay, late)
          IN
          /\ requests' = Issued(requests, u, "repo")
          /\ returned' = [u |-> u, result |-> repo_data,
                          object |-> repo_data = "json" /\ isDict]
          /\ IF u.session
             THEN last_api_call' = stamp /\ clock' = stamp
             ELSE UNCHANGED timing
          /\ IF repo_data = "not_found"
             THEN pc' = "reply" /\ outcome' = "repo_not_found" /\ branch' = branch
             ELSE IF repo_data = "rate_limited"
             THEN pc' = "tree_request" /\ outcome' = outcome /\ branch' = branch
             ELSE IF ~(repo_data = "json" /\ isDict)
             THEN pc' = "reply" /\ outcome' = "unexpected" /\ branch' = branch
             ELSE /\ pc' = "tree_request"
                  /\ outcome' = outcome
                  /\ branch' = IF branch # <<>> THEN branch ELSE DefaultBranch
    /\ UNCHANGED <<repo, max_depth, owner, name, subpath, all_paths, paths,
                   tree_dict, tree_lines, chunks, part, sent, attempts, raised,
                   swallowed, api_call_delay, call, log, overlapped, startup>>

\* lines 505-516: the repository request and what the handler makes of it
RepoRequest ==
    /\ pc = "repo_request"
    /\ \E u \in Upstream, isDict \in BOOLEAN, late \in 0..MaxLate :
          LET repo_data == github_request(u)
              stamp     == Stamp(clock, last_api_call, api_call_delay, late)
          IN
          /\ requests' = Issued(requests, u, "repo")
          /\ returned' = [u |-> u, result |-> repo_data,
                          object |-> repo_data = "json" /\ isDict]
          /\ IF u.session
             THEN last_api_call' = stamp /\ clock' = stamp
             ELSE UNCHANGED timing
          /\ IF repo_data = "not_found"
             THEN pc' = "reply" /\ outcome' = "repo_not_found" /\ branch' = branch
             ELSE IF repo_data = "rate_limited"
             THEN pc' = "reply" /\ outcome' = "rate_limited" /\ branch' = branch
             ELSE IF ~(repo_data = "json" /\ isDict)
             THEN pc' = "reply" /\ outcome' = "unexpected" /\ branch' = branch
             ELSE /\ pc' = "tree_request"
                  /\ outcome' = outcome
                  /\ branch' = IF branch # <<>> THEN branch ELSE DefaultBranch
    /\ UNCHANGED <<repo, max_depth, owner, name, subpath, all_paths, paths,
                   tree_dict, tree_lines, chunks, part, sent, attempts, raised,
                   swallowed, api_call_delay, call, log, overlapped, startup>>

IsListed(item) == item.type \in {"blob", "tree"}

\* lines 518-531: the tree request, its checks and all_paths
TreeRequest ==
    /\ pc = "tree_request"
    /\ \E u \in Upstream, body \in TreeBodies, late \in 0..MaxLate :
          LET tree_data == github_request(u)
              stamp     == Stamp(clock, last_api_call, api_call_delay, late)
          IN
          /\ requests' = Issued(requests, u, "tree")
          /\ returned' = [u |-> u, result |-> tree_data,
                          object |-> tree_data = "json"]
          /\ IF u.session
             THEN last_api_call' = stamp /\ clock' = stamp
             ELSE UNCHANGED timing
          /\ IF tree_data = "not_found"
             THEN pc' = "reply" /\ outcome' = "tree_not_found" /\ all_paths' = all_paths
             ELSE IF tree_data = "rate_limited"
             THEN pc' = "reply" /\ outcome' = "tree_rate_limited" /\ all_paths' = all_paths
             ELSE IF tree_data # "json" \/ body.kind = "notree"
             THEN pc' = "reply" /\ outcome' = "tree_unexpected" /\ all_paths' = all_paths
             ELSE IF body.kind = "malformed"
             THEN pc' = "except" /\ outcome' = outcome /\ all_paths' = all_paths
             ELSE /\ pc' = "filter"
                  /\ outcome' = outcome
                  /\ all_paths' =
                        LET listed == SelectSeq(body.items, IsListed)
                        IN  [i \in 1..Len(listed) |-> listed[i].path]
    /\ UNCHANGED <<repo, max_depth, owner, name, branch, subpath, paths,
                   tree_dict, tree_lines, chunks, part, sent, attempts, raised,
                   swallowed, api_call_delay, call, log, overlapped, startup>>

\* the paths below sp without the single-file branch
BelowOnly(ps, sp) ==
    LET IsUnder(q) == StartsWith(q, sp \o Slash)
        under      == SelectSeq(ps, IsUnder)
    IN  [i \in 1..Len(under) |-> Drop(under[i], Len(sp) + 1)]

\* the paths below sp in ps, relative to it; <<sp>> when sp is a single file
Below(ps, sp) ==
    LET IsUnder(q) == StartsWith(q, sp \o Slash)
        under      == SelectSeq(ps, IsUnder)
    IN  IF under # <<>>
        THEN [i \in 1..Len(under) |-> Drop(under[i], Len(sp) + 1)]
        ELSE <<sp>>

\* the ceiling test taken on the paths at and below the subpath
TooLargeInSubpath(ps) ==
    LET InSub(q) == q = subpath \/ StartsWith(q, subpath \o Slash)
    IN  Len(IF subpath # <<>> THEN SelectSeq(ps, InSub) ELSE ps) > MAX_PATH_LIMIT

\* the ceiling test taken with >=
TooLargeAtLimit(ps) == Len(ps) >= MAX_PATH_LIMIT

\* "if len(all_paths) > MAX_PATH_LIMIT"
TooLarge(ps) == Len(ps) > MAX_PATH_LIMIT

\* lines 533-561
Filter ==
    /\ pc = "filter"
    /\ LET InSub(q)  == q = subpath \/ StartsWith(q, subpath \o Slash)
           filtered  == SelectSeq(all_paths, InSub)
           ps        == IF subpath # <<>> THEN Below(all_paths, subpath)
                        ELSE all_paths
       IN  IF all_paths = <<>>
           THEN pc' = "reply" /\ outcome' = "empty_repo" /\ paths' = paths
           ELSE IF TooLarge(all_paths)
           THEN pc' = "reply" /\ outcome' = "too_large" /\ paths' = paths
           ELSE IF subpath # <<>> /\ filtered = <<>>
           THEN pc' = "reply" /\ outcome' = "subpath_not_found" /\ paths' = paths
           ELSE IF ps = <<>>
           THEN pc' = "reply" /\ outcome' = "no_files" /\ paths' = ps
           ELSE pc' = "format" /\ outcome' = outcome /\ paths' = ps
    /\ UNCHANGED <<repo, max_depth, owner, name, branch, subpath, all_paths,
                   tree_dict, tree_lines, chunks, part, requests, sent, attempts, raised,
                   swallowed, timing, callers, startup>>

\* lines 563-611: tree_lines = format_tree(paths, max_depth)
FormatTree ==
    /\ pc = "format"
    /\ tree_dict' = tree_dict_of(paths, max_depth)
    /\ tree_lines' = format_tree(paths, max_depth, owner, name, branch, subpath)
    /\ pc' = "chunk"
    /\ UNCHANGED <<repo, max_depth, owner, name, branch, subpath, all_paths,
                   paths, chunks, part, requests, sent, attempts, outcome, raised,
                   swallowed, timing, callers, startup>>

\* lines 613-630
Chunking ==
    /\ pc = "chunk"
    /\ chunks' = GreedyChunks(tree_lines)
    /\ pc' = "cap"
    /\ UNCHANGED <<repo, max_depth, owner, name, branch, subpath, all_paths,
                   paths, tree_dict, tree_lines, part, requests, sent,
                   attempts, outcome, raised,
                   swallowed, timing, callers, startup>>

\* lines 632-639
CapChunks ==
    /\ pc = "cap"
    /\ chunks' = Capped(chunks)
    /\ pc' = "decide"
    /\ UNCHANGED <<repo, max_depth, owner, name, branch, subpath, all_paths,
                   paths, tree_dict, tree_lines, part, requests, sent,
                   attempts, outcome, raised,
                   swallowed, timing, callers, startup>>

\* lines 641-687: file or embeds
Decide ==
    /\ pc = "decide"
    /\ IF Overflows(chunks)
       THEN pc' = "send_full" /\ outcome' = "file_large"
       ELSE IF chunks = <<>>
       THEN pc' = "reply" /\ outcome' = "no_content"
       ELSE pc' = "send_first" /\ outcome' = outcome
    /\ UNCHANGED <<repo, max_depth, owner, name, branch, subpath, all_paths,
                   paths, tree_dict, tree_lines, chunks, part, requests, sent,
                   attempts, raised,
                   swallowed, timing, callers, startup>>

\* lines 691-693: the first embed; a failed send leads to the file of 697-704
SendFirst ==
    /\ pc = "send_first"
    /\ attempts' = attempts + 1
    /\ \/ /\ sent' = Append(sent, Embed(chunks, 1))
          /\ part' = 1
          /\ pc' = "send_rest"
          /\ outcome' = outcome
       \/ /\ pc' = "send_full"
          /\ outcome' = "file_fallback"
          /\ UNCHANGED <<sent, part>>
    /\ UNCHANGED <<repo, max_depth, owner, name, branch, subpath, all_paths,
                   paths, tree_dict, tree_lines, chunks, requests, raised,
                   swallowed, timing, callers, startup>>

\* lines 643-651 and 697-705: the whole listing as a file
SendFull ==
    /\ pc = "send_full"
    /\ attempts' = attempts + 1
    /\ \/ /\ sent' = Append(sent, File(outcome, FullText(tree_lines)))
          /\ pc' = "done"
       \/ /\ pc' = "except"
          /\ UNCHANGED sent
    /\ UNCHANGED <<repo, max_depth, owner, name, branch, subpath, all_paths,
                   paths, tree_dict, tree_lines, chunks, part, requests,
                   outcome, raised,
                   swallowed, timing, callers, startup>>

\* lines 707-709: the embed of chunks[part] (0-based), the loop's variable i
SendRest ==
    /\ pc = "send_rest"
    /\ part < Len(chunks)
    /\ attempts' = attempts + 1
    /\ \/ /\ sent' = Append(sent, Embed(chunks, part + 1))
          /\ part' = part + 1
          /\ UNCHANGED <<pc, outcome>>
       \/ /\ pc' = "send_remaining"
          /\ outcome' = "file_remaining"
          /\ UNCHANGED <<sent, part>>
    /\ UNCHANGED <<repo, max_depth, owner, name, branch, subpath, all_paths,
                   paths, tree_dict, tree_lines, chunks, requests, raised,
                   swallowed, timing, callers, startup>>

\* line 734: every embed was sent
Finish ==
    /\ pc = "send_rest"
    /\ part >= Len(chunks)
    /\ pc' = "done"
    /\ outcome' = "embeds"
    /\ UNCHANGED <<repo, max_depth, owner, name, branch, subpath, all_paths,
                   paths, tree_dict, tree_lines, chunks, part, requests, sent,
                   attempts, raised,
                   swallowed, timing, callers, startup>>

\* lines 715-732: the chunks from the failed one on as a file
SendRemaining ==
    /\ pc = "send_remaining"
    /\ attempts' = attempts + 1
    /\ \/ /\ sent' = Append(sent, File(outcome,
                        RemainingText(chunks, part, owner, name, branch, subpath)))
          /\ pc' = "done"
       \/ /\ pc' = "except"
          /\ UNCHANGED sent
    /\ UNCHANGED <<repo, max_depth, owner, name, branch, subpath, all_paths,
                   paths, tree_dict, tree_lines, chunks, part, requests,
                   outcome, raised,
                   swallowed, timing, callers, startup>>

\* the followup.send of an error message, and the return after it
Reply ==
    /\ pc = "reply"
    /\ attempts' = attempts + 1
    /\ \/ /\ sent' = Append(sent, Text(outcome))
          /\ pc' = "done"
       \/ /\ pc' = "except"
          /\ UNCHANGED sent
    /\ UNCHANGED <<repo, max_depth, owner, name, branch, subpath, all_paths,
                   paths, tree_dict, tree_lines, chunks, part, requests,
                   outcome, raised,
                   swallowed, timing, callers, startup>>

\* lines 736-749: the except block; a failure of its send is swallowed
Except ==
    /\ pc = "except"
    /\ attempts' = attempts + 1
    /\ raised' = TRUE
    /\ \/ /\ sent' = Append(sent, Text("internal_error"))
          /\ UNCHANGED swallowed
       \/ /\ swallowed' = TRUE
          /\ UNCHANGED sent
    /\ pc' = "done"
    /\ UNCHANGED <<repo, max_depth, owner, name, branch, subpath, all_paths,
                   paths, tree_dict, tree_lines, chunks, part, requests,
                   outcome, timing, callers, startup>>

Next ==
    \/ Invoke
    \/ Defer
    \/ Parse
    \/ RepoRequest
    \/ TreeRequest
    \/ Filter
    \/ FormatTree
    \/ Chunking
    \/ CapChunks
    \/ Decide
    \/ SendFirst
    \/ SendFull
    \/ SendRest
    \/ Finish
    \/ SendRemaining
    \/ Reply
    \/ Except

Spec == Init /\ [][Next]_vars

(***************************************************************************)
(* The rendering stages alone, from the state in which format_tree is      *)
(* called, over two families of path lists: nested short paths, and flat   *)
(* names of the lengths at which the paginator's tests change              *)
(***************************************************************************)
StructPaths ==
    {<<97>>,                             \* "a"
     <<97, 47, 98>>,                     \* "a/b"
     <<97, 47, 98, 47, 99, 47, 100>>,    \* "a/b/c/d"
     <<66, 47, 97>>,                     \* "B/a"
     <<65>>,                             \* "A"
     <<65, 47>>}                         \* "A/"

\* the sequences over S of length 1..n
SeqsUpTo(S, n) == UNION {[1..k -> S] : k \in 1..n}

NameLengths == {0, 369, 744, 746}

LongPaths ==
    UNION {{[i \in 1..k |-> LongName(96 + i, f[i])] : f \in [1..k -> NameLengths]}
           : k \in 1..MaxLong}

LongSubpath == LongName(115, 739)

OwnerRepo == <<111, 47, 114>>                     \* "o/r"
TreeUrl   == <<104, 116, 116, 112, 115, 58, 47, 47, 103, 105, 116, 104, 117, 98, 46, 99, 111, 109, 47, 111, 47, 114, 47, 116, 114, 101, 101, 47, 109, 47>>
                                         \* "https://github.com/o/r/tree/m/"

InitRender ==
    /\ pc = "format"
    /\ owner = <<111>>
    /\ name = <<114>>
    /\ branch = DefaultBranch
    /\ \/ /\ paths \in SeqsUpTo(StructPaths, MaxPaths)
          /\ max_depth \in 0..MaxDepth
          /\ subpath = <<>>
       \/ /\ paths \in LongPaths
          /\ max_depth = 3
          /\ subpath \in {<<>>, LongSubpath}
    /\ repo = IF subpath = <<>> THEN OwnerRepo ELSE TreeUrl \o subpath
    /\ all_paths = IF subpath = <<>> THEN paths
                   ELSE [i \in 1..Len(paths) |-> subpath \o Slash \o paths[i]]
    /\ tree_dict = EmptyDict
    /\ tree_lines = <<>>
    /\ chunks = <<>>
    /\ part = 0
    /\ requests = <<"repo", "tree">>
    /\ sent = <<>>
    /\ attempts = 0
    /\ outcome = "none"
    /\ raised = FALSE
    /\ swallowed = FALSE
    /\ clock = Boot
    /\ last_api_call = Boot
    /\ api_call_delay = 1 * TicksPerSecond
    /\ call = <<>>
    /\ log = <<>>
    /\ overlapped = FALSE
    /\ returned = NoReturn
    /\ Started

NextRender ==
    \/ FormatTree
    \/ Chunking
    \/ CapChunks
    \/ Decide

SpecRender == InitRender /\ [][NextRender]_vars

(***************************************************************************)
(* The parse alone, from the state in which it starts, over repo arguments *)
(* put together from a prefix, path segments and a suffix                  *)
(***************************************************************************)
MaxSegs == 5   \* segments of a repo argument

SegNames == {<<111>>, Tree, <<>>, Http}          \* "o", "tree", "", "http"
UrlHost  == <<104, 116, 116, 112, 115, 58, 47, 47, 103, 105, 116, 104, 117, 98, 46, 99, 111, 109, 47>>
                                                 \* "https://github.com/"
Suffixes == {<<>>, <<47>>, <<63, 113>>}          \* "", "/", "?q"

ExampleUrl  == <<104, 116, 116, 112, 115, 58, 47, 47, 103, 105, 116, 104, 117, 98, 46, 99, 111, 109, 47, 111, 99, 116, 111, 47, 114, 101, 112, 111, 47, 116, 114, 101, 101, 47, 109, 97, 105, 110, 47, 115, 114, 99>>
               \* "https://github.com/octo/repo/tree/main/src"
ExampleBare == <<111, 99, 116, 111, 99, 97, 116, 47, 72, 101, 108, 108, 111, 45, 87, 111, 114, 108, 100>>
               \* "octocat/Hello-World"

RefInputs ==
    {pre \o Join(Slash, segs) \o suf :
        pre \in {<<>>, UrlHost},
        segs \in {<<>>} \cup SeqsUpTo(SegNames, MaxSegs),
        suf \in Suffixes}
    \cup {ExampleUrl, ExampleBare}

InitParse ==
    /\ pc = "parse"
    /\ repo \in RefInputs
    /\ max_depth = 3
    /\ owner = <<>>
    /\ name = <<>>
    /\ branch = <<>>
    /\ subpath = <<>>
    /\ all_paths = <<>>
    /\ paths = <<>>
    /\ tree_dict = EmptyDict
    /\ tree_lines = <<>>
    /\ chunks = <<>>
    /\ part = 0
    /\ requests = <<>>
    /\ sent = <<>>
    /\ attempts = 0
    /\ outcome = "none"
    /\ raised = FALSE
    /\ swallowed = FALSE
    /\ clock = Boot
    /\ last_api_call = 0
    /\ api_call_delay = 1 * TicksPerSecond
    /\ call = <<>>
    /\ log = <<>>
    /\ overlapped = FALSE
    /\ returned = NoReturn
    /\ Started

NextParse ==
    \/ Parse
    \/ Reply
    \/ Except

SpecParse == InitParse /\ [][NextParse]_vars

(***************************************************************************)
(* github_request by itself (src/src/utils/github_utils.py), called by     *)
(* coroutines of one event loop: a step is the code between two awaits     *)
(***************************************************************************)
NCallers == 2   \* coroutines that call github_request
MaxCalls == 2   \* calls made in all
MaxTicks == 3   \* ticks the clock advances

Callers == 1..NCallers

Idle == [pc |-> "idle", k |-> 0, wake |-> 0]

\* the entry of log of a call by c that is entered at the clock's time under
\* session and sleeps for sleep
Entry(c, session, sleep) ==
    [caller  |-> c,
     session |-> session,
     entered |-> clock,
     seen    |-> last_api_call,
     sleep   |-> sleep,
     issued  |-> session /\ sleep = 0,
     at      |-> IF session /\ sleep = 0 THEN clock ELSE 0]

\* a call is entered only when no other call is under way
EnterCallLocked(c) ==
    /\ call[c].pc = "idle"
    /\ \A d \in Callers : call[d].pc = "idle"
    /\ Len(log) < MaxCalls
    /\ \E session \in BOOLEAN :
          LET sleep == Sleep(clock, last_api_call, api_call_delay)
              k     == Len(log) + 1
          IN  IF ~session
              THEN /\ log' = Append(log, Entry(c, FALSE, 0))
                   /\ returned' = [u |-> NoSession,
                                   result |-> github_request(NoSession),
                                   object |-> FALSE]
                   /\ UNCHANGED <<call, last_api_call>>
              ELSE IF sleep > 0
              THEN /\ log' = Append(log, Entry(c, TRUE, sleep))
                   /\ call' = [call EXCEPT ![c] =
                                 [pc |-> "sleeping", k |-> k, wake |-> clock + sleep]]
                   /\ UNCHANGED <<last_api_call, returned>>
              ELSE /\ log' = Append(log, Entry(c, TRUE, 0))
                   /\ call' = [call EXCEPT ![c] =
                                 [pc |-> "awaiting", k |-> k, wake |-> clock]]
                   /\ last_api_call' = clock
                   /\ UNCHANGED returned
    /\ UNCHANGED overlapped
    /\ UNCHANGED <<pc, repo, max_depth, owner, name, branch, subpath, all_paths,
                   paths, tree_dict, tree_lines, chunks, part, requests, sent,
                   attempts, outcome, raised, swallowed, clock, api_call_delay,
                   startup>>

\* lines 54-68 up to the first await: the session check, the sleep that
\* is due, and, when none is, the stamp and the request
EnterCall(c) ==
    /\ call[c].pc = "idle"
    /\ Len(log) < MaxCalls
    /\ \E session \in BOOLEAN :
          LET sleep == Sleep(clock, last_api_call, api_call_delay)
              k     == Len(log) + 1
          IN  IF ~session
              THEN /\ log' = Append(log, Entry(c, FALSE, 0))
                   /\ returned' = [u |-> NoSession,
                                   result |-> github_request(NoSession),
                                   object |-> FALSE]
                   /\ UNCHANGED <<call, last_api_call>>
              ELSE IF sleep > 0
              THEN /\ log' = Append(log, Entry(c, TRUE, sleep))
                   /\ call' = [call EXCEPT ![c] =
                                 [pc |-> "sleeping", k |-> k, wake |-> clock + sleep]]
                   /\ UNCHANGED <<last_api_call, returned>>
              ELSE /\ log' = Append(log, Entry(c, TRUE, 0))
                   /\ call' = [call EXCEPT ![c] =
                                 [pc |-> "awaiting", k |-> k, wake |-> clock]]
                   /\ last_api_call' = clock
                   /\ UNCHANGED returned
    /\ overlapped' = (overlapped \/ \E d \in Callers \ {c} : call[d].pc # "idle")
    /\ UNCHANGED <<pc, repo, max_depth, owner, name, branch, subpath, all_paths,
                   paths, tree_dict, tree_lines, chunks, part, requests, sent,
                   attempts, outcome, raised, swallowed, clock, api_call_delay,
                   startup>>

\* lines 66-70: the sleep is over, at its time or later; the stamp and the
\* request
WakeCall(c) ==
    /\ call[c].pc = "sleeping"
    /\ clock >= call[c].wake
    /\ last_api_call' = clock
    /\ log' = [log EXCEPT ![call[c].k].issued = TRUE, ![call[c].k].at = clock]
    /\ call' = [call EXCEPT ![c].pc = "awaiting"]
    /\ UNCHANGED <<pc, repo, max_depth, owner, name, branch, subpath, all_paths,
                   paths, tree_dict, tree_lines, chunks, part, requests, sent,
                   attempts, outcome, raised, swallowed, clock, api_call_delay,
                   overlapped, returned, startup>>

\* lines 70-91: the response, or the exception, and what the call returns
Respond(c) ==
    /\ call[c].pc = "awaiting"
    /\ \E u \in Upstream, isDict \in BOOLEAN :
          /\ u.session
          /\ returned' = [u |-> u, result |-> github_request(u),
                          object |-> github_request(u) = "json" /\ isDict]
    /\ call' = [call EXCEPT ![c] = Idle]
    /\ UNCHANGED <<pc, repo, max_depth, owner, name, branch, subpath, all_paths,
                   paths, tree_dict, tree_lines, chunks, part, requests, sent,
                   attempts, outcome, raised, swallowed, timing, api_call_delay,
                   log, overlapped, startup>>

\* time passes
Tick ==
    /\ clock < Boot + MaxTicks
    /\ clock' = clock + 1
    /\ UNCHANGED <<pc, repo, max_depth, owner, name, branch, subpath, all_paths,
                   paths, tree_dict, tree_lines, chunks, part, requests, sent,
                   attempts, outcome, raised, swallowed, last_api_call, callers,
                   startup>>

InitRate ==
    /\ pc = "idle"
    /\ repo = <<>>
    /\ max_depth = 3
    /\ owner = <<>>
    /\ name = <<>>
    /\ branch = <<>>
    /\ subpath = <<>>
    /\ all_paths = <<>>
    /\ paths = <<>>
    /\ tree_dict = EmptyDict
    /\ tree_lines = <<>>
    /\ chunks = <<>>
    /\ part = 0
    /\ requests = <<>>
    /\ sent = <<>>
    /\ attempts = 0
    /\ outcome = "none"
    /\ raised = FALSE
    /\ swallowed = FALSE
    /\ clock = Boot
    /\ last_api_call \in {0, Boot - 1}
    /\ api_call_delay \in Delays
    /\ call = [c \in Callers |-> Idle]
    /\ log = <<>>
    /\ overlapped = FALSE
    /\ returned = NoReturn
    /\ Started

NextRate ==
    \/ \E c \in Callers : EnterCall(c)
    \/ \E c \in Callers : WakeCall(c)
    \/ \E c \in Callers : Respond(c)
    \/ Tick

SpecRate == InitRate /\ [][NextRate]_vars

(***************************************************************************)
(* The bot's startup: setup_hook, then the on_ready events, each handled   *)
(* by a task of its own                                                    *)
(***************************************************************************)
\* _sync_commands: one tree.sync when the guild id is set; a failure of it
\* is logged and not raised
sync_commands(n) == IF target_guild_id THEN n + 1 ELSE n

\* lines 52-79, to the await of tree.sync if there is one
setup_hook ==
    /\ hook = "start"
    /\ IF ~IS_RENDER /\ registered
       THEN syncs' = sync_commands(syncs) /\ hook' = "syncing"
       ELSE syncs' = syncs /\ hook' = "done"
    /\ UNCHANGED <<pc, repo, max_depth, owner, name, branch, subpath, all_paths,
                   paths, tree_dict, tree_lines, chunks, part, requests, sent,
                   attempts, outcome, raised, swallowed, timing, callers,
                   IS_RENDER, target_guild_id, registered, commands_synced, ready>>

\* setup_hook's sync returns, or fails
SetupSynced ==
    /\ hook = "syncing"
    /\ hook' = "done"
    /\ UNCHANGED <<pc, repo, max_depth, owner, name, branch, subpath, all_paths,
                   paths, tree_dict, tree_lines, chunks, part, requests, sent,
                   attempts, outcome, raised, swallowed, timing, callers,
                   IS_RENDER, target_guild_id, registered, commands_synced, syncs,
                   ready>>

\* lines 95-112: an on_ready event, to the sleep before the sync if the
\* guard lets it through
on_ready(e) ==
    /\ hook = "done"
    /\ ready[e] = "idle"
    /\ \E in_guild \in BOOLEAN :
          ready' = [ready EXCEPT ![e] =
                      IF target_guild_id /\ in_guild /\ ~commands_synced
                      THEN "sleeping" ELSE "done"]
    /\ UNCHANGED <<pc, repo, max_depth, owner, name, branch, subpath, all_paths,
                   paths, tree_dict, tree_lines, chunks, part, requests, sent,
                   attempts, outcome, raised, swallowed, timing, callers,
                   IS_RENDER, target_guild_id, registered, commands_synced, syncs,
                   hook>>

\* lines 112-120: the sleep is over; _sync_commands, to the await of tree.sync
ReadySync(e) ==
    /\ ready[e] = "sleeping"
    /\ syncs' = sync_commands(syncs)
    /\ ready' = [ready EXCEPT ![e] = "syncing"]
    /\ UNCHANGED <<pc, repo, max_depth, owner, name, branch, subpath, all_paths,
                   paths, tree_dict, tree_lines, chunks, part, requests, sent,
                   attempts, outcome, raised, swallowed, timing, callers,
                   IS_RENDER, target_guild_id, registered, commands_synced, hook>>

\* lines 120-126: the sync has returned, or failed; the flag is set
ReadySynced(e) ==
    /\ ready[e] = "syncing"
    /\ commands_synced' = TRUE
    /\ ready' = [ready EXCEPT ![e] = "done"]
    /\ UNCHANGED <<pc, repo, max_depth, owner, name, branch, subpath, all_paths,
                   paths, tree_dict, tree_lines, chunks, part, requests, sent,
                   attempts, outcome, raised, swallowed, timing, callers,
                   IS_RENDER, target_guild_id, registered, syncs, hook>>

InitSync ==
    /\ pc = "idle"
    /\ repo = <<>>
    /\ max_depth = 3
    /\ owner = <<>>
    /\ name = <<>>
    /\ branch = <<>>
    /\ subpath = <<>>
    /\ all_paths = <<>>
    /\ paths = <<>>
    /\ tree_dict = EmptyDict
    /\ tree_lines = <<>>
    /\ chunks = <<>>
    /\ part = 0
    /\ requests = <<>>
    /\ sent = <<>>
    /\ attempts = 0
    /\ outcome = "none"
    /\ raised = FALSE
    /\ swallowed = FALSE
    /\ clock = Boot
    /\ last_api_call = 0
    /\ IS_RENDER \in BOOLEAN
    /\ api_call_delay = (IF IS_RENDER THEN 2 ELSE 1) * TicksPerSecond
    /\ call = <<>>
    /\ log = <<>>
    /\ overlapped = FALSE
    /\ returned = NoReturn
    /\ target_guild_id \in BOOLEAN
    /\ registered \in BOOLEAN
    /\ commands_synced = FALSE
    /\ syncs = 0
    /\ hook = "start"
    /\ ready = [e \in Events |-> "idle"]

NextSync ==
    \/ setup_hook
    \/ SetupSynced
    \/ \E e \in Events : on_ready(e)
    \/ \E e \in Events : ReadySync(e)
    \/ \E e \in Events : ReadySynced(e)

SpecSync == InitSync /\ [][NextSync]_vars

(***************************************************************************)
(* Properties of the paginator                                             *)
(***************************************************************************)
EndsWith(s, t) == Len(s) >= Len(t) /\ SubSeq(s, Len(s) - Len(t) + 1, Len(s)) = t

\* the lines of a chunk, as str.splitlines gives them: the empty chunk has none
ChunkLines(c) == IF c = <<>> THEN <<>> ELSE SplitAt(c, 10)

\* the lines of the chunks, in order
Flattened(cs) == Flat([i \in 1..Len(cs) |-> ChunkLines(cs[i])])

\* the line sequence the paginator works on
ShownLines == [i \in 1..Len(tree_lines) |-> Ellipsized(tree_lines[i])]

HasNotice == chunks # <<>> /\ EndsWith(chunks[Len(chunks)], trunc_msg)

Paginated == pc \in {"cap", "decide"}

\* C1: when the chunk count stays within MAX_EMBEDS (and always before the
\* cap is applied), the lines of the chunks, taken in order, are exactly the
\* lines of format_tree with each over-long line in its ellipsized form:
\* chunking drops, repeats and reorders nothing.
C1_ChunkingLossless ==
    (pc = "cap" \/ (pc = "decide" /\ ~HasNotice)) => Flattened(chunks) = ShownLines

\* a listing of several chunks within the cap, one line of it ellipsized
C1_Witness ==
    /\ pc = "decide"
    /\ ~HasNotice
    /\ Len(chunks) = MAX_EMBEDS
    /\ \E i \in 1..Len(tree_lines) : Len(tree_lines[i]) > MAX_CONTENT_CHARS

\* budgets from the least one the claim admits
NoticeBudgets == (Len(trunc_msg) + 3)..(Len(trunc_msg) + 5)

\* C2: every chunk is at most MAX_CONTENT_CHARS long, before the cap and
\* after it, the chunk that carries the truncation notice included; and the
\* chunk with the notice keeps within every budget of at least the notice
\* length plus 3.
C2_ChunkWithinBudget ==
    Paginated =>
        /\ \A i \in 1..Len(chunks) : Len(chunks[i]) <= MAX_CONTENT_CHARS
        /\ \A i \in 1..Len(chunks) : \A limit \in NoticeBudgets :
              Len(WithNoticeAt(Take(chunks[i], limit), limit)) <= limit

\* the last retained chunk was trimmed for the notice
C2_Witness ==
    /\ pc = "decide"
    /\ HasNotice
    /\ Len(chunks[Len(chunks)]) = MAX_CONTENT_CHARS

\* C3: the cap leaves at most MAX_EMBEDS chunks; the notice ends the last
\* retained chunk exactly when the chunking gave more than MAX_EMBEDS chunks,
\* and the chunks before the last retained one are kept as they were.
C3_CapAndNotice ==
    [][pc = "cap" =>
        /\ Len(chunks') <= MAX_EMBEDS
        /\ (Len(chunks) > MAX_EMBEDS) <=> EndsWith(chunks'[Len(chunks')], trunc_msg)
        /\ Len(chunks) > MAX_EMBEDS =>
              /\ Len(chunks') = MAX_EMBEDS
              /\ \A i \in 1..(MAX_EMBEDS - 1) : chunks'[i] = chunks[i]
        /\ Len(chunks) <= MAX_EMBEDS => chunks' = chunks]_vars

\* exactly MAX_EMBEDS + 1 chunks of content, cut to MAX_EMBEDS with the notice
C3_Witness ==
    /\ pc = "decide"
    /\ Len(GreedyChunks(tree_lines)) = MAX_EMBEDS + 1
    /\ Len(chunks) = MAX_EMBEDS
    /\ HasNotice

\* the chunk without the notice the cap appended
Body(c) == IF EndsWith(c, trunc_msg) THEN SubSeq(c, 1, Len(c) - Len(trunc_msg)) ELSE c

\* c is a run of whole lines of the line sequence
WholeLines(c) ==
    \E a \in 1..(Len(ShownLines) + 1), b \in 0..Len(ShownLines) :
        c = Join(NL, SubSeq(ShownLines, a, b))

\* C4: every chunk is a run of whole rendered lines, the last retained chunk
\* (apart from the notice) included.
C4_WholeLinesOnly ==
    pc = "decide" => \A i \in 1..Len(chunks) : WholeLines(Body(chunks[i]))

(***************************************************************************)
(* Properties of format_tree, read off its output lines and its dict       *)
(***************************************************************************)
Rendered == pc = "chunk"

\* the entry lines are tree_lines[2..]; line 1 is the root line
EntryLines == 2..Len(tree_lines)

\* the number of four-character prefix units before the connector
LineDepth(i) ==
    LET l == tree_lines[i]
        IsConnector(d) == l[4 * d + 1] \in {9492, 9500}
    IN  CHOOSE d \in 0..(Len(l) \div 4) :
            IsConnector(d) /\ \A e \in 0..(d - 1) : ~IsConnector(e)

\* the line ends with the directory marker
Marked(i) == tree_lines[i][Len(tree_lines[i])] = 47

\* the key the line shows
LineName(i) ==
    LET l == tree_lines[i]
    IN  SubSeq(l, 4 * (LineDepth(i) + 1) + 1, Len(l) - (IF Marked(i) THEN 1 ELSE 0))

\* the line of the entry's parent directory, 1 for a top-level entry
ParentLine(i) ==
    IF LineDepth(i) = 0 THEN 1
    ELSE CHOOSE j \in 2..(i - 1) :
            /\ LineDepth(j) = LineDepth(i) - 1
            /\ \A k \in (j + 1)..(i - 1) : LineDepth(k) >= LineDepth(i)

\* the segments from the top down to the entry of line i
RECURSIVE EntryPath(_)
EntryPath(i) ==
    IF LineDepth(i) = 0 THEN <<LineName(i)>>
    ELSE EntryPath(ParentLine(i)) \o <<LineName(i)>>

\* C5: for max_depth >= 1 no entry line is indented deeper than max_depth
\* units, and every path of more than max_depth segments has the entry of
\* its segment at index max_depth rendered, with the marker, below the
\* entries of the segments before it.
C5_DepthBounded ==
    (Rendered /\ max_depth >= 1) =>
        /\ \A i \in EntryLines : LineDepth(i) <= max_depth
        /\ \A k \in 1..Len(paths) :
              LET parts == Split(paths[k]) IN
              Len(parts) > max_depth =>
                  \E i \in EntryLines :
                      /\ LineDepth(i) = max_depth
                      /\ EntryPath(i) = SubSeq(parts, 1, max_depth + 1)
                      /\ Marked(i)

\* a path that goes two segments below the cutoff, with its cutoff entry
C5_Witness ==
    /\ Rendered
    /\ max_depth >= 1
    /\ \E k \in 1..Len(paths) : Len(Split(paths[k])) > max_depth + 1
    /\ \E i \in EntryLines : LineDepth(i) = max_depth /\ Marked(i)

\* lines i < j show entries of the same directory
Siblings(i, j) ==
    /\ i < j
    /\ LineDepth(i) = LineDepth(j)
    /\ \A k \in i..j : LineDepth(k) >= LineDepth(i)

\* C6: among the entries of one directory, those shown as directories come
\* before those shown as files, and within each group the names ascend in
\* case-insensitive order.
C6_SiblingOrder ==
    Rendered =>
        \A i \in EntryLines, j \in EntryLines :
            Siblings(i, j) =>
                /\ ~(~Marked(i) /\ Marked(j))
                /\ Marked(i) = Marked(j) =>
                      ~StrLess(Lower(LineName(j)), Lower(LineName(i)))

\* a directory ahead of a file whose name sorts before it, and two
\* directories whose case-sensitive order is the reverse
C6_Witness ==
    /\ Rendered
    /\ \E i \in EntryLines, j \in EntryLines :
          /\ Siblings(i, j)
          /\ Marked(i) /\ ~Marked(j)
          /\ StrLess(Lower(LineName(j)), Lower(LineName(i)))
    /\ \E i \in EntryLines, j \in EntryLines :
          /\ Siblings(i, j)
          /\ Marked(i) /\ Marked(j)
          /\ StrLess(LineName(j), LineName(i))

\* the nodes of a dict, each as the segments that lead to it
RECURSIVE NodePaths(_, _)
NodePaths(d, prefix) ==
    Flat([i \in 1..Len(d.items) |->
            <<prefix \o <<d.items[i].key>>>>
            \o NodePaths(d.items[i].value, prefix \o <<d.items[i].key>>)])

\* the number of nodes of tree_dict that stand for the segments q
Positions(q) ==
    LET nodes == NodePaths(tree_dict, <<>>)
    IN  Cardinality({i \in 1..Len(nodes) : nodes[i] = q})

\* C7 as stated: every path of the list is at exactly one position of the
\* tree.
C7_EveryPathOnce ==
    Rendered => \A k \in 1..Len(paths) : Positions(Split(paths[k])) = 1

\* C7, amended: a path of at most max_depth + 1 segments is at exactly one
\* position of the tree, and a longer path is represented exactly once, by
\* its first max_depth + 1 segments; no two nodes stand for the same
\* segments.
C7_PathOnceUpToCutoff ==
    Rendered =>
        /\ \A k \in 1..Len(paths) :
              Positions(Take(Split(paths[k]), max_depth + 1)) = 1
        /\ LET nodes == NodePaths(tree_dict, <<>>)
           IN  \A i \in 1..Len(nodes) : Positions(nodes[i]) = 1

\* a repeated path, a path that is a prefix of another, and a cut path
C7_Witness ==
    /\ Rendered
    /\ \E k \in 1..Len(paths), l \in 1..Len(paths) : k # l /\ paths[k] = paths[l]
    /\ \E k \in 1..Len(paths), l \in 1..Len(paths) :
          /\ Len(Split(paths[k])) < Len(Split(paths[l]))
          /\ Split(paths[k]) = Take(Split(paths[l]), Len(Split(paths[k])))
          /\ Len(Split(paths[l])) > max_depth + 1

(***************************************************************************)
(* Properties of the responses                                             *)
(***************************************************************************)
ErrorKinds ==
    {"invalid_url", "invalid_format", "repo_not_found", "rate_limited",
     "unexpected", "tree_not_found", "tree_rate_limited", "tree_unexpected",
     "empty_repo", "too_large", "subpath_not_found", "no_files", "no_content"}

\* the invocation ended on an error path: an error was reported, or a step
\* raised into the except block
ErrorPath == pc = "done" /\ (outcome \in ErrorKinds \/ raised)

IsText(r) == r.kind = "text"
ErrorTexts == SelectSeq(sent, IsText)

\* C8 as stated: an invocation that ends on an error path has produced
\* exactly one response, whichever sends failed.
C8_ExactlyOneResponse == ErrorPath => Len(sent) = 1

\* C8, what the handler does ensure: on an error path the embeds delivered
\* before the error are followed by exactly one error message (the error's
\* own, or the internal-error message when a step raised), unless the send
\* of the internal-error message failed, and then by none.
C8_OneErrorResponse ==
    ErrorPath =>
        IF swallowed
        THEN ErrorTexts = <<>> /\ Len(sent) = part
        ELSE /\ Len(sent) = part + 1
             /\ ErrorTexts =
                    <<Text(IF raised THEN "internal_error" ELSE outcome)>>
             /\ sent[Len(sent)].kind = "text"
             /\ outcome \in ErrorKinds \cup {"none", "file_fallback"} => part = 0

\* C9: when the send of the first embed fails, one file is sent whose text
\* is all the lines of format_tree joined by newlines, as they were before
\* ellipsis and cap, and no embed is sent; if the file's send fails too,
\* the except block's message is all that may follow.
C9_FirstSendFallback ==
    (pc = "done" /\ outcome = "file_fallback") =>
        /\ \A i \in 1..Len(sent) : sent[i].kind # "embed"
        /\ attempts = IF raised THEN 3 ELSE 2
        /\ ~raised =>
              /\ Len(sent) = 1
              /\ sent[1].kind = "file"
              /\ sent[1].content = Join(NL, tree_lines)
        /\ raised => \A i \in 1..Len(sent) : sent[i].kind = "text"

\* the file stands for a listing with an over-long line and beyond the cap
C9_Witness ==
    /\ pc = "done"
    /\ outcome = "file_fallback"
    /\ ~raised
    /\ Len(sent) = 1
    /\ \E i \in 1..Len(tree_lines) : Len(tree_lines[i]) > MAX_CONTENT_CHARS
    /\ HasNotice

\* C10: when the send of embed k >= 2 of n fails, the embeds 1..k-1 were
\* delivered once each and in order, one file is sent whose text is the
\* header and the chunks k..n in order, and no embed is sent after it; if
\* the file's send fails too, only the except block's message may follow.
C10_LaterSendFallback ==
    (pc = "done" /\ outcome = "file_remaining") =>
        LET k == part + 1
            n == Len(chunks)
        IN  /\ k >= 2 /\ k <= n
            /\ Len(sent) >= k - 1
            /\ \A i \in 1..(k - 1) :
                  /\ sent[i].kind = "embed"
                  /\ sent[i].idx = i
                  /\ sent[i].content = Fence \o chunks[i] \o FenceEnd
            /\ attempts = IF raised THEN k + 2 ELSE k + 1
            /\ ~raised =>
                  /\ Len(sent) = k
                  /\ sent[k].kind = "file"
                  /\ sent[k].content =
                        Header(owner, name, branch, subpath)
                            \o Join(PartBreak, SubSeq(chunks, k, n))
            /\ raised => \A i \in k..Len(sent) : sent[i].kind = "text"

\* the third of four embeds failed; the file holds the third and the fourth
C10_Witness ==
    /\ pc = "done"
    /\ outcome = "file_remaining"
    /\ ~raised
    /\ part = 2
    /\ Len(chunks) = MAX_EMBEDS
    /\ Len(sent) = 3


IsFile(r)  == r.kind = "file"
IsEmbed(r) == r.kind = "embed"

C12_TooLargeStopsEarly ==
    /\ Len(all_paths) > MAX_PATH_LIMIT =>
          /\ pc \in {"filter", "reply", "except", "done"}
          /\ pc # "filter" => outcome = "too_large"
          /\ tree_dict = EmptyDict
          /\ tree_lines = <<>>
          /\ chunks = <<>>
          /\ \A i \in DOMAIN sent : sent[i].kind = "text"
          /\ (pc = "done" /\ ~raised) => sent = <<Text("too_large")>>
    /\ Len(all_paths) <= MAX_PATH_LIMIT => outcome # "too_large"

C12_Witness ==
    /\ pc = "done"
    /\ Len(all_paths) = MAX_PATH_LIMIT + 1
    /\ sent = <<Text("too_large")>>


(***************************************************************************)
(* Properties of the parse                                                 *)
(***************************************************************************)
\* the path of a repo argument: what follows the host, up to "?" or "#"
RefPath(r) ==
    LET rest == IF StartsWith(r, UrlHost) THEN Drop(r, Len(UrlHost) - 1) ELSE r
    IN  Take(rest, FirstIn(rest, {63, 35}, 1) - 1)

\* its segments, the slashes at its ends apart
RefSegments(r) == SplitAt(StripSlashes(RefPath(r)), 47)

\* the handler takes an argument that starts with "http" for a URL
IsUrl(r) == StartsWith(r, Http)

Resolved == pc = "repo_request"

InvalidRef(r) ==
    IF IsUrl(r) THEN Len(RefSegments(r)) < 2
    ELSE \A i \in DOMAIN r : r[i] # 47

C16_ResultOfOutcome ==
    /\ returned.result # "pending" =>
          LET u        == returned.u
              answered == u.session /\ ~u.raises
          IN  /\ (answered /\ u.status = 200) => returned.result = "json"
              /\ (answered /\ u.status = 404) => returned.result = "not_found"
              /\ (answered /\ u.status = 403 /\ u.remaining = 0) =>
                     returned.result = "rate_limited"
              /\ (answered /\ u.status = 403 /\ u.remaining # 0) =>
                     returned.result = "none"
              /\ (answered /\ u.status \notin {200, 403, 404}) =>
                     returned.result = "none"
              /\ ~answered => returned.result = "none"
    /\ \A k \in DOMAIN log :
          ~log[k].session =>
              /\ ~log[k].issued
              /\ log[k].sleep = 0
              /\ \A j \in DOMAIN log : log[j].issued => log[j].at # 0
    /\ (\A k \in DOMAIN log : ~log[k].session) => last_api_call < Boot

\* a 403 with quota remaining has returned None, after a call without a
\* session that left no trace
C16_Witness ==
    /\ returned.result = "none"
    /\ returned.u.session
    /\ ~returned.u.raises
    /\ returned.u.status = 403
    /\ returned.u.remaining # 0
    /\ \E k \in DOMAIN log : ~log[k].session
    /\ \E k \in DOMAIN log : log[k].issued

\* the calls that issued their request, in the order of their requests
IssuedCalls == {k \in DOMAIN log : log[k].issued}
NextIssued(j, k) ==
    /\ j \in IssuedCalls /\ k \in IssuedCalls /\ j # k
    /\ log[j].at <= log[k].at
    /\ \A i \in IssuedCalls \ {j, k} :
          log[i].at <= log[j].at \/ log[i].at >= log[k].at

\* C17: as long as no call is entered while another is under way, a call
\* entered e < api_call_delay after the stamp it reads sleeps for
\* api_call_delay - e, a call entered later does not sleep, no sleep is
\* longer than api_call_delay, and two requests in a row are at least
\* api_call_delay apart.
C17_SpacingWithoutOverlap ==
    ~overlapped =>
        /\ \A k \in DOMAIN log :
              log[k].session =>
                  LET e == log[k].entered - log[k].seen
                  IN  /\ e < api_call_delay => log[k].sleep = api_call_delay - e
                      /\ e >= api_call_delay => log[k].sleep = 0
                      /\ log[k].sleep <= api_call_delay
                      /\ log[k].issued => log[k].at >= log[k].entered + log[k].sleep
        /\ \A j, k \in DOMAIN log :
              NextIssued(j, k) => log[k].at - log[j].at >= api_call_delay

\* a call entered 0 < e < api_call_delay after the request before it has
\* slept for the rest and issued its own
C17_Witness ==
    /\ ~overlapped
    /\ \E j, k \in DOMAIN log :
          /\ NextIssued(j, k)
          /\ log[k].seen = log[j].at
          /\ log[k].entered > log[j].at
          /\ log[k].entered - log[j].at < api_call_delay
          /\ log[k].sleep = api_call_delay - (log[k].entered - log[j].at)
          /\ log[k].at - log[j].at >= api_call_delay

\* C18: calls of several coroutines only share bot.last_api_call, and none
\* holds up another: whatever the others are doing, an idle caller can enter
\* a call, a sleeper whose time has come can go on, and a caller awaiting
\* its response can take it; each sleep is counted from the stamp the call
\* read and is at most api_call_delay.  (Two calls can so read the same
\* stamp, sleep alike and issue their requests less than api_call_delay
\* apart: the witness.)
C18_NoCallHoldsUpAnother ==
    /\ \A c \in Callers :
          /\ (call[c].pc = "idle" /\ Len(log) < MaxCalls) => ENABLED EnterCall(c)
          /\ (call[c].pc = "sleeping" /\ clock >= call[c].wake) => ENABLED WakeCall(c)
          /\ call[c].pc = "awaiting" => ENABLED Respond(c)
          /\ call[c].pc = "sleeping" =>
                /\ log[call[c].k].caller = c
                /\ call[c].wake = log[call[c].k].entered + log[call[c].k].sleep
    /\ \A k \in DOMAIN log :
          log[k].session =>
              /\ log[k].sleep = Sleep(log[k].entered, log[k].seen, api_call_delay)
              /\ log[k].sleep <= api_call_delay

\* two calls read the same stamp, slept alike and issued their requests
\* less than api_call_delay apart
C18_Witness ==
    /\ overlapped
    /\ \E j, k \in DOMAIN log :
          /\ j # k
          /\ log[j].caller # log[k].caller
          /\ log[j].issued /\ log[k].issued
          /\ log[j].seen = log[k].seen
          /\ log[j].sleep = log[k].sleep
          /\ log[j].sleep > 0
          /\ log[k].at >= log[j].at
          /\ log[k].at - log[j].at < api_call_delay


(***************************************************************************)
(* Properties of the subpath                                               *)
(***************************************************************************)
\* the subpath is a path of the listing and no path of the listing is below it
SingleFile ==
    /\ subpath # <<>>
    /\ \E i \in DOMAIN all_paths : all_paths[i] = subpath
    /\ \A i \in DOMAIN all_paths : ~StartsWith(all_paths[i], subpath \o Slash)

\* C20: when the subpath names a single file, format_tree returns one line,
\* the file's, and no root line with entries below it.
C20_SingleFileOneLine ==
    (pc \in {"chunk", "cap", "decide"} /\ SingleFile) => Len(tree_lines) = 1


(***************************************************************************)
(* Further properties of the paginator                                     *)
(***************************************************************************)
\* the lines a chunk holds whole
LinesIn(c) == {ChunkLines(c)[k] : k \in 1..Len(ChunkLines(c))}

\* the rendered lines longer than MAX_CONTENT_CHARS, as the paginator shows them
LongShown ==
    {Ellipsized(tree_lines[i]) :
        i \in {k \in 1..Len(tree_lines) : Len(tree_lines[k]) > MAX_CONTENT_CHARS}}

\* C21: a rendered line longer than MAX_CONTENT_CHARS is shown as its first
\* MAX_CONTENT_CHARS - 3 characters and "...", exactly MAX_CONTENT_CHARS
\* characters, a line of at most MAX_CONTENT_CHARS characters is shown
\* unchanged, and the chunk that holds a shortened line holds it whole, after
\* the cap as before it.
C21_LongLineWhole ==
    [][pc = "cap" =>
        /\ \A i \in 1..Len(tree_lines) :
              IF Len(tree_lines[i]) > MAX_CONTENT_CHARS
              THEN /\ ShownLines[i] = Take(tree_lines[i], MAX_CONTENT_CHARS - 3) \o Dots
                   /\ Len(ShownLines[i]) = MAX_CONTENT_CHARS
                   /\ \E j \in 1..Len(chunks) : ShownLines[i] \in LinesIn(chunks[j])
              ELSE ShownLines[i] = tree_lines[i]
        /\ \A j \in 1..Len(chunks') : \A e \in LongShown :
              e \in LinesIn(chunks[j]) => e \in LinesIn(Body(chunks'[j]))]_vars


\* C26: every chunk of the paginator, before the cap and after it, holds at
\* least one line.
C26_NoEmptyChunk ==
    Paginated => \A i \in 1..Len(chunks) : ChunkLines(chunks[i]) # <<>>

(***************************************************************************)
(* Further properties of format_tree                                       *)
(***************************************************************************)
\* the nodes of a dict whose value is the sentinel, each as the segments
\* that lead to it
RECURSIVE SentinelPaths(_, _)
SentinelPaths(d, prefix) ==
    Flat([i \in 1..Len(d.items) |->
            (IF d.items[i].value = Sentinel
             THEN <<prefix \o <<d.items[i].key>>>> ELSE <<>>)
            \o SentinelPaths(d.items[i].value, prefix \o <<d.items[i].key>>)])

\* the segments q are the first segments of some input path
LeadsToPath(q) ==
    \E k \in 1..Len(paths) :
        Len(Split(paths[k])) >= Len(q) /\ Take(Split(paths[k]), Len(q)) = q

\* C23: the ancestor at index max_depth of the paths that go below it is one
\* sentinel node, rendered as exactly one entry with the marker, and nothing
\* is rendered below it; every sentinel is at index max_depth, and every
\* node stands for the first segments of an input path.
C23_OneTruncatedAncestor ==
    Rendered =>
        /\ \A k \in 1..Len(paths) :
              LET parts == Split(paths[k])
                  anc   == Take(parts, max_depth + 1)
                  shown == {i \in EntryLines : EntryPath(i) = anc}
              IN  Len(parts) > max_depth + 1 =>
                      /\ Cardinality(shown) = 1
                      /\ \A i \in shown : Marked(i) /\ LineDepth(i) = max_depth
                      /\ \A j \in EntryLines :
                            ~(Len(EntryPath(j)) > Len(anc)
                              /\ Take(EntryPath(j), Len(anc)) = anc)
                      /\ Positions(anc) = 1
        /\ LET cut == SentinelPaths(tree_dict, <<>>)
           IN  \A i \in 1..Len(cut) : Len(cut[i]) = max_depth + 1
        /\ LET nodes == NodePaths(tree_dict, <<>>)
           IN  \A i \in 1..Len(nodes) : LeadsToPath(nodes[i])

\* two different paths below the same ancestor at the cutoff
C23_Witness ==
    /\ Rendered
    /\ \E k \in 1..Len(paths), l \in 1..Len(paths) :
          /\ paths[k] # paths[l]
          /\ Len(Split(paths[k])) > max_depth + 1
          /\ Len(Split(paths[l])) > max_depth + 1
          /\ Take(Split(paths[k]), max_depth + 1) = Take(Split(paths[l]), max_depth + 1)
          /\ \E i \in EntryLines :
                EntryPath(i) = Take(Split(paths[k]), max_depth + 1) /\ Marked(i)


\* some input path lies strictly below the segments q
HasBelow(q) ==
    \E k \in 1..Len(paths) :
        Len(Split(paths[k])) > Len(q) /\ Take(Split(paths[k]), Len(q)) = q

\* C29: an entry is rendered with the directory marker only if some input
\* path lies strictly below it; a path without descendants, one whose last
\* segment is at index max_depth included, is rendered without the marker.
C29_MarkerOnlyOnDirectories ==
    Rendered => \A i \in EntryLines : Marked(i) => HasBelow(EntryPath(i))


\* the paths of the list, as a set
PathSet == {paths[k] : k \in 1..Len(paths)}

\* the strings of S in ascending order, each once
RECURSIVE Ascending(_)
Ascending(S) ==
    IF S = {} THEN <<>>
    ELSE LET least == CHOOSE x \in S : \A y \in S \ {x} : StrLess(x, y)
         IN  <<least>> \o Ascending(S \ {least})

\* no two names of one directory differ and are equal ignoring case
NoCaseClash ==
    \A k \in 1..Len(paths), l \in 1..Len(paths) :
        LET p == Split(paths[k])
            q == Split(paths[l])
        IN  \A i \in 1..Min(Len(p), Len(q)) :
                (Take(p, i - 1) = Take(q, i - 1) /\ Lower(p[i]) = Lower(q[i]))
                    => p[i] = q[i]

\* C30: when no two sibling names are equal ignoring case, the lines are
\* those of the list's paths taken once each in ascending order: the order
\* of the list and the repetitions in it do not show in the output.
C30_OrderAndRepetitionFree ==
    (Rendered /\ NoCaseClash /\ Ascending(PathSet) # paths) =>
        tree_lines = format_tree(Ascending(PathSet), max_depth, owner, name,
                                 branch, subpath)

\* a list with a repeated path, not in ascending order, whose entries are
\* two directories of the same level
C30_Witness ==
    /\ Rendered
    /\ NoCaseClash
    /\ Len(paths) > Cardinality(PathSet)
    /\ Cardinality(PathSet) >= 2
    /\ \E k \in 1..(Len(paths) - 1) : StrLess(paths[k + 1], paths[k])
    /\ \E i \in EntryLines, j \in EntryLines : Siblings(i, j) /\ Marked(i) /\ Marked(j)

(***************************************************************************)
(* Further properties of the handler                                       *)
(***************************************************************************)
RepoErrors == {"repo_not_found", "rate_limited", "unexpected"}

\* C22: an invocation issues the repository request, then the tree request,
\* each at most once and in this order; the tree request is reached only
\* from a repository request that returned a JSON object; a repository
\* request that returned not_found, rate_limited or no object leads to the
\* matching error, whose send is the next thing the handler does, and no
\* request follows it.
C22_RequestsInOrder ==
    [][/\ requests' # requests =>
             \/ pc = "repo_request" /\ requests = <<>> /\ requests' = <<"repo">>
             \/ pc = "tree_request" /\ requests = <<"repo">>
                   /\ requests' = <<"repo", "tree">>
       /\ (pc' = "tree_request" /\ pc # "tree_request") =>
             /\ pc = "repo_request"
             /\ returned'.result = "json"
             /\ returned'.object
       /\ pc = "repo_request" =>
             /\ returned'.result = "not_found" =>
                   pc' = "reply" /\ outcome' = "repo_not_found"
             /\ returned'.result = "rate_limited" =>
                   pc' = "reply" /\ outcome' = "rate_limited"
             /\ (returned'.result = "none" \/ ~returned'.object) =>
                   pc' = "reply" /\ outcome' \in RepoErrors
             /\ ~returned'.object => outcome' \in RepoErrors
       /\ outcome \in RepoErrors =>
             /\ requests' = requests
             /\ "tree" \notin {requests[k] : k \in 1..Len(requests)}
             /\ pc = "reply" =>
                   /\ attempts = 0
                   /\ sent' = <<Text(outcome)>> \/ (pc' = "except" /\ sent' = <<>>)]_vars

\* the repository request was answered 403 with no quota left: the
\* rate-limit error is the one response and the tree request was not made
C22_Witness ==
    /\ pc = "done"
    /\ requests = <<"repo">>
    /\ returned.result = "rate_limited"
    /\ outcome = "rate_limited"
    /\ sent = <<Text("rate_limited")>>


\* format_tree has been called in this invocation
Built == tree_lines # <<>>

\* C24: format_tree is called with at least one path, and the command never
\* ends on the "No files or directories found" error: a listing without
\* paths, or without any path at or below the subpath, is reported before.
C24_BuilderNeverEmpty ==
    /\ outcome # "no_files"
    /\ (pc = "format" \/ Built) => paths # <<>>
    /\ outcome \in {"empty_repo", "subpath_not_found"} => ~Built
    /\ (pc = "reply" /\ returned.result = "json" /\ requests = <<"repo", "tree">>
          /\ all_paths = <<>>) =>
          outcome \in {"empty_repo", "tree_unexpected"}

\* a subpath that is in the listing with nothing below it: the list handed
\* to format_tree is the subpath alone
C24_Witness ==
    /\ pc = "chunk"
    /\ subpath # <<>>
    /\ paths = <<subpath>>
    /\ \A k \in 1..Len(all_paths) : ~StartsWith(all_paths[k], subpath \o Slash)


\* the paths of the listing at and below the subpath
InSubpath ==
    {k \in 1..Len(all_paths) :
        all_paths[k] = subpath \/ StartsWith(all_paths[k], subpath \o Slash)}

\* C27: the handler answers "too large" exactly when the whole listing has
\* more than MAX_PATH_LIMIT paths, whatever the subpath and however few
\* paths lie below it, and then nothing is filtered or built.
C27_TooLargeBeforeSubpath ==
    [][pc = "filter" =>
          /\ (outcome' = "too_large") <=> (Len(all_paths) > MAX_PATH_LIMIT)
          /\ Len(all_paths) > MAX_PATH_LIMIT =>
                pc' = "reply" /\ paths' = <<>> /\ tree_lines' = <<>>]_vars

\* a listing over the ceiling, asked for with a subpath that holds two of
\* its paths
C27_Witness ==
    /\ pc = "done"
    /\ outcome = "too_large"
    /\ sent = <<Text("too_large")>>
    /\ subpath # <<>>
    /\ Cardinality(InSubpath) \in 1..MAX_PATH_LIMIT


\* C28: with MAX_CONTENT_CHARS + 10 <= MAX_FIELD_VALUE, as configured, no
\* chunk passes the overflow test, before the cap or after it, with the
\* notice or without; the handler never decides for the file because of a
\* chunk's length, and a file in the responses follows a failed send.
C28_OverflowNeverTaken ==
    /\ MAX_CONTENT_CHARS + 10 <= MAX_FIELD_VALUE
    /\ ~Overflows(chunks)
    /\ outcome # "file_large"
    /\ \A k \in 1..Len(sent) :
          sent[k].kind = "file" =>
              /\ outcome \in {"file_fallback", "file_remaining"}
              /\ attempts > Len(sent)

\* a last chunk cut to the whole budget for the notice, and all embeds sent
C28_Witness ==
    /\ pc = "done"
    /\ outcome = "embeds"
    /\ HasNotice
    /\ Len(chunks[Len(chunks)]) = MAX_CONTENT_CHARS
    /\ Len(sent) = Len(chunks)

(***************************************************************************)
(* Properties of the startup                                               *)
(***************************************************************************)
\* C25 as stated: whatever setup_hook and the on_ready events do, and in
\* whatever order their steps are taken, tree.sync is called for the guild
\* at most once.
C25_SyncedAtMostOnce == syncs <= 1

====
